---------------------------- MODULE Spec2Model ----------------------------
(***************************************************************************)
(* Chat with RAG: the chat session of streamlit_app.py and the provider    *)
(* adapters of llm_providers.py.                                           *)
(*                                                                         *)
(* A Python str is modelled as the sequence of its characters, each a      *)
(* one-character TLA+ string, so that lower(), strip(), the substring test *)
(* and the f-strings are computed rather than assumed.  The two code       *)
(* points of the warning emoji are the elements "U+26A0" and "U+FE0F".     *)
(***************************************************************************)
EXTENDS Integers, Sequences, FiniteSets, TLC

(***************************************************************************)
(* Bounds of the model.                                                    *)
(***************************************************************************)
\* a question is asked while its two messages fit in a history of this length
MaxMessages == 4
\* the sample-question buttons that are clicked: the first MaxSample of them
MaxSample == 1
\* retrieve returns at most this many hits (and never more than k)
MaxHits == 2

(***************************************************************************)
(* String literals of the source.                                          *)
(***************************************************************************)

DOC_PROMPT ==
    <<"Y","o","u"," ","a","r","e"," ","a"," ","c","a","r","e","f","u","l"," ",
      "a","s","s","i","s","t","a","n","t","."," ","A","n","s","w","e","r"," ",
      "O","N","L","Y"," ","u","s","i","n","g"," ","t","h","e"," ","p","r","o",
      "v","i","d","e","d"," ","D","O","C","U","M","E","N","T"," ","E","X","C",
      "E","R","P","T","S",".","\n","I","f"," ","t","h","e"," ","e","x","c","e",
      "r","p","t","s"," ","d","o"," ","n","o","t"," ","c","o","n","t","a","i",
      "n"," ","t","h","e"," ","a","n","s","w","e","r",","," ","s","a","y",":",
      " ","\"","I"," ","c","o","u","l","d","n","'","t"," ","f","i","n","d"," ",
      "a","n"," ","a","n","s","w","e","r"," ","i","n"," ","t","h","e"," ","d",
      "o","c","u","m","e","n","t",".","\"","\n","A","l","w","a","y","s"," ",
      "i","n","c","l","u","d","e"," ","i","n","l","i","n","e"," ","c","i","t",
      "a","t","i","o","n","s"," ","l","i","k","e"," ","[","r","e","f",":"," ",
      "<","p","a","g","e","_","o","r","_","s","l","i","d","e","_","i","d","s",
      ">","]","."," ","K","e","e","p"," ","a","n","s","w","e","r","s"," ","c",
      "o","n","c","i","s","e",".">>

TOPICAL_PROMPT ==
    <<"Y","o","u"," ","a","r","e"," ","a"," ","h","e","l","p","f","u","l"," ",
      "a","s","s","i","s","t","a","n","t","."," ","T","h","e"," ","u","s","e",
      "r","'","s"," ","q","u","e","s","t","i","o","n"," ","i","s"," ","o","n",
      "-","t","o","p","i","c"," ","f","o","r"," ","t","h","e"," ","u","p","l",
      "o","a","d","e","d"," ","d","o","c","u","m","e","n","t",",","\n","b","u",
      "t"," ","t","h","e"," ","d","o","c","u","m","e","n","t"," ","l","a","c",
      "k","s"," ","t","h","e"," ","n","e","e","d","e","d"," ","d","e","t","a",
      "i","l","s","."," ","G","i","v","e"," ","a"," ","c","o","n","c","i","s",
      "e",","," ","c","o","r","r","e","c","t"," ","a","n","s","w","e","r"," ",
      "f","r","o","m"," ","y","o","u","r"," ","g","e","n","e","r","a","l"," ",
      "k","n","o","w","l","e","d","g","e",".","\n","S","t","a","r","t"," ","y",
      "o","u","r"," ","a","n","s","w","e","r"," ","w","i","t","h",":"," ","O",
      "f","f","-","d","o","c"," ","(","r","e","l","a","t","e","d",")",":"," ",
      "a","n","d"," ","D","O"," ","N","O","T"," ","f","a","b","r","i","c","a",
      "t","e"," ","c","i","t","a","t","i","o","n","s",".">>

FALLBACK_PHRASE ==
    <<"c","o","u","l","d","n","'","t"," ","f","i","n","d"," ","a","n"," ","a",
      "n","s","w","e","r"," ","i","n"," ","t","h","e"," ","d","o","c","u","m",
      "e","n","t">>

NO_DOC_REPLY ==
    <<"P","l","e","a","s","e"," ","u","p","l","o","a","d"," ","a","n","d"," ",
      "i","n","d","e","x"," ","a"," ","d","o","c","u","m","e","n","t"," ","f",
      "i","r","s","t",".">>

ERR_PREFIX ==
    <<"U+26A0","U+FE0F"," ","E","r","r","o","r"," ","w","h","i","l","e"," ",
      "a","n","s","w","e","r","i","n","g",":"," ">>

OFFDOC_LABEL ==
    <<"O","f","f","-","d","o","c"," ","(","r","e","l","a","t","e","d",")",":">>

GEMINI ==
    <<"G","e","m","i","n","i">>

GROQ ==
    <<"G","r","o","q">>

UNKNOWN_PROVIDER ==
    <<"U","n","k","n","o","w","n"," ","p","r","o","v","i","d","e","r",":"," ">>

GENAI_NOT_INSTALLED ==
    <<"g","o","o","g","l","e","-","g","e","n","a","i"," ","n","o","t"," ","i",
      "n","s","t","a","l","l","e","d",";"," ","a","d","d"," ","i","t"," ","t",
      "o"," ","r","e","q","u","i","r","e","m","e","n","t","s",".","t","x","t">>

GEMINI_KEY_MISSING ==
    <<"G","E","M","I","N","I","_","A","P","I","_","K","E","Y"," ","m","i","s",
      "s","i","n","g"," ","i","n"," ","s","e","c","r","e","t","s">>

GROQ_NOT_INSTALLED ==
    <<"g","r","o","q"," ","p","a","c","k","a","g","e"," ","n","o","t"," ","i",
      "n","s","t","a","l","l","e","d",";"," ","a","d","d"," ","i","t"," ","t",
      "o"," ","r","e","q","u","i","r","e","m","e","n","t","s",".","t","x","t">>

GROQ_KEY_MISSING ==
    <<"G","R","O","Q","_","A","P","I","_","K","E","Y"," ","m","i","s","s","i",
      "n","g"," ","i","n"," ","s","e","c","r","e","t","s">>

CTX_HEADER ==
    <<"D","O","C","U","M","E","N","T"," ","E","X","C","E","R","P","T","S",":",
      "\n">>

CTX_QUESTION ==
    <<"\n","\n","Q","U","E","S","T","I","O","N",":"," ">>

CTX_SEP ==
    <<"\n","-","-","-","\n">>

TOPICAL_Q ==
    <<"\n","\n","Q",":"," ">>

SAMPLE_0 ==
    <<"G","i","v","e"," ","a"," ","5","-","b","u","l","l","e","t"," ","e","x",
      "e","c","u","t","i","v","e"," ","s","u","m","m","a","r","y",".">>

SAMPLE_1 ==
    <<"L","i","s","t"," ","k","e","y"," ","f","i","n","d","i","n","g","s"," ",
      "w","i","t","h"," ","p","a","g","e"," ","r","e","f","e","r","e","n","c",
      "e","s",".">>

SAMPLE_2 ==
    <<"W","h","a","t"," ","a","s","s","u","m","p","t","i","o","n","s"," ","w",
      "e","r","e"," ","s","t","a","t","e","d","?">>

SAMPLE_3 ==
    <<"W","h","a","t"," ","a","r","e"," ","t","h","e"," ","l","i","m","i","t",
      "a","t","i","o","n","s","?">>

(***************************************************************************)
(* Sample data: what the user types, what the collaborators hold and what  *)
(* the backends answer.  These are inputs, not program text.               *)
(***************************************************************************)

TYPED_Q ==
    <<"W","h","a","t"," ","w","a","s"," ","r","e","v","e","n","u","e"," ","g",
      "r","o","w","t","h","?">>

PAGE_1 ==
    <<"p","a","g","e","_","1">>

PAGE_2 ==
    <<"p","a","g","e","_","2">>

TEXT_A ==
    <<"R","e","v","e","n","u","e"," ","g","r","e","w"," ","1","2","%",".">>

TEXT_B ==
    <<"C","o","s","t","s"," ","f","e","l","l",".">>

TEXT_C ==
    <<"O","u","t","l","o","o","k",".">>

RAW_ANSWER ==
    <<"R","e","v","e","n","u","e"," ","g","r","e","w"," ","1","2","%","."," ",
      "[","r","e","f",":"," ","p","a","g","e","_","2","]","\n">>

RAW_NOT_FOUND ==
    <<"I"," ","c","o","u","l","d","n","'","t"," ","f","i","n","d"," ","a","n",
      " ","a","n","s","w","e","r"," ","i","n"," ","t","h","e"," ","d","o","c",
      "u","m","e","n","t",".">>

RAW_NOT_FOUND_CAPS ==
    <<" ","S","o","r","r","y",","," ","I"," ","C","o","u","l","d","n","'","t",
      " ","F","i","n","d"," ","A","n"," ","A","n","s","w","e","r"," ","I","n",
      " ","T","h","e"," ","D","o","c","u","m","e","n","t",".","\n">>

RAW_NEAR_MISS ==
    <<"I"," ","c","o","u","l","d"," ","n","o","t"," ","f","i","n","d"," ","a",
      "n"," ","a","n","s","w","e","r"," ","i","n"," ","t","h","e"," ","d","o",
      "c","u","m","e","n","t",".">>

RAW_LABELLED ==
    <<"O","f","f","-","d","o","c"," ","(","r","e","l","a","t","e","d",")",":",
      " ","B","l","u","e",".","\n">>

RAW_UNLABELLED ==
    <<"B","l","u","e"," ","i","s"," ","a"," ","c","o","m","m","o","n"," ","c",
      "h","o","i","c","e",".">>

API_ERROR ==
    <<"5","0","3"," ","S","e","r","v","i","c","e"," ","U","n","a","v","a","i",
      "l","a","b","l","e">>

STORE_ERROR ==
    <<"s","t","o","r","e"," ","u","n","a","v","a","i","l","a","b","l","e">>

RETRIEVE_ERROR ==
    <<"e","m","p","t","y"," ","i","n","d","e","x">>

INGEST_ERROR ==
    <<"u","n","s","u","p","p","o","r","t","e","d"," ","f","i","l","e">>

OPENAI ==
    <<"O","p","e","n","A","I">>

GEMINI_LOWER ==
    <<"g","e","m","i","n","i">>

(***************************************************************************)
(* Python str operations.                                                  *)
(***************************************************************************)
\* str.lower() maps the upper-case letters and leaves every other character
UPPER_TO_LOWER ==
    "A" :> "a" @@ "B" :> "b" @@ "C" :> "c" @@ "D" :> "d" @@ "E" :> "e" @@ "F" :> "f" @@
    "G" :> "g" @@ "H" :> "h" @@ "I" :> "i" @@ "J" :> "j" @@ "K" :> "k" @@ "L" :> "l" @@
    "M" :> "m" @@ "N" :> "n" @@ "O" :> "o" @@ "P" :> "p" @@ "Q" :> "q" @@ "R" :> "r" @@
    "S" :> "s" @@ "T" :> "t" @@ "U" :> "u" @@ "V" :> "v" @@ "W" :> "w" @@ "X" :> "x" @@
    "Y" :> "y" @@ "Z" :> "z"

\* code points, for the ordering of str used by sorted()
ORD ==
    "\t" :> 9 @@ "\n" :> 10 @@ " " :> 32 @@ "!" :> 33 @@ "\"" :> 34 @@ "#" :> 35 @@
    "$" :> 36 @@ "%" :> 37 @@ "&" :> 38 @@ "'" :> 39 @@ "(" :> 40 @@ ")" :> 41 @@
    "*" :> 42 @@ "+" :> 43 @@ "," :> 44 @@ "-" :> 45 @@ "." :> 46 @@ "/" :> 47 @@
    "0" :> 48 @@ "1" :> 49 @@ "2" :> 50 @@ "3" :> 51 @@ "4" :> 52 @@ "5" :> 53 @@
    "6" :> 54 @@ "7" :> 55 @@ "8" :> 56 @@ "9" :> 57 @@ ":" :> 58 @@ ";" :> 59 @@
    "<" :> 60 @@ "=" :> 61 @@ ">" :> 62 @@ "?" :> 63 @@ "@" :> 64 @@ "A" :> 65 @@
    "B" :> 66 @@ "C" :> 67 @@ "D" :> 68 @@ "E" :> 69 @@ "F" :> 70 @@ "G" :> 71 @@
    "H" :> 72 @@ "I" :> 73 @@ "J" :> 74 @@ "K" :> 75 @@ "L" :> 76 @@ "M" :> 77 @@
    "N" :> 78 @@ "O" :> 79 @@ "P" :> 80 @@ "Q" :> 81 @@ "R" :> 82 @@ "S" :> 83 @@
    "T" :> 84 @@ "U" :> 85 @@ "V" :> 86 @@ "W" :> 87 @@ "X" :> 88 @@ "Y" :> 89 @@
    "Z" :> 90 @@ "[" :> 91 @@ "\\" :> 92 @@ "]" :> 93 @@ "^" :> 94 @@ "_" :> 95 @@
    "a" :> 97 @@ "b" :> 98 @@ "c" :> 99 @@ "d" :> 100 @@ "e" :> 101 @@
    "f" :> 102 @@ "g" :> 103 @@ "h" :> 104 @@ "i" :> 105 @@ "j" :> 106 @@ "k" :> 107 @@
    "l" :> 108 @@ "m" :> 109 @@ "n" :> 110 @@ "o" :> 111 @@ "p" :> 112 @@ "q" :> 113 @@
    "r" :> 114 @@ "s" :> 115 @@ "t" :> 116 @@ "u" :> 117 @@ "v" :> 118 @@ "w" :> 119 @@
    "x" :> 120 @@ "y" :> 121 @@ "z" :> 122 @@ "{" :> 123 @@ "|" :> 124 @@ "}" :> 125 @@
    "~" :> 126

WHITESPACE == {" ", "\n", "\t"}

LowerChar(c) == IF c \in DOMAIN UPPER_TO_LOWER THEN UPPER_TO_LOWER[c] ELSE c

\* s.lower()
Lower(s) == [i \in 1..Len(s) |-> LowerChar(s[i])]

\* sub in s
Contains(s, sub) ==
    \E i \in 0..(Len(s) - Len(sub)) :
        \A j \in 1..Len(sub) : s[i + j] = sub[j]

\* s.startswith(pre)
StartsWith(s, pre) ==
    /\ Len(pre) <= Len(s)
    /\ \A j \in 1..Len(pre) : s[j] = pre[j]

\* s.strip(): leading and trailing whitespace removed
Strip(s) ==
    LET keep == {i \in 1..Len(s) : s[i] \notin WHITESPACE}
    IN  IF keep = {} THEN <<>>
        ELSE LET lo == CHOOSE i \in keep : \A j \in keep : i <= j
                 hi == CHOOSE i \in keep : \A j \in keep : j <= i
             IN  SubSeq(s, lo, hi)

\* s[:n] for n >= 0
Prefix(s, n) == SubSeq(s, 1, IF n < Len(s) THEN n ELSE Len(s))

\* a < b in Python's ordering of str (by code point, a proper prefix first)
StrLess(a, b) ==
    \E i \in 1..(Len(b)) :
        /\ \A j \in 1..(i - 1) : j <= Len(a) /\ a[j] = b[j]
        /\ i - 1 <= Len(a)
        /\ (i <= Len(a) => ORD[a[i]] < ORD[b[i]])

\* sorted(S) for a set S of str
RECURSIVE Sorted(_)
Sorted(S) ==
    IF S = {} THEN <<>>
    ELSE LET m == CHOOSE x \in S : \A y \in S \ {x} : StrLess(x, y)
         IN  <<m>> \o Sorted(S \ {m})

\* the elements of a list, as in set(list)
ToSet(seq) == {seq[i] : i \in 1..Len(seq)}

\* sep.join(parts)
RECURSIVE Join(_, _)
Join(sep, parts) ==
    IF parts = <<>> THEN <<>>
    ELSE IF Len(parts) = 1 THEN parts[1]
    ELSE parts[1] \o sep \o Join(sep, Tail(parts))

\* Python's None, and the truth value of an Optional[str]
\* (None is no str: its one element is not a character)
None == <<"<None>">>
Truthy(x) == x # None /\ x # <<>>

(***************************************************************************)
(* Results of calls.  A call returns a value or raises; either way it      *)
(* reports the collaborator calls it made, in order.                       *)
(***************************************************************************)
Exc(type, msg) == [type |-> type, msg |-> msg]
NoExc == Exc("", <<>>)
Return(val, calls) == [ok |-> TRUE, val |-> val, exc |-> NoExc, calls |-> calls]
Raise(exc, calls) == [ok |-> FALSE, val |-> <<>>, exc |-> exc, calls |-> calls]

\* one entry of the call log: which collaborator, for which role, with what
\* request, and what came back (the reply text, or the error message)
Call(fn, role, model, input, ok, out) ==
    [fn |-> fn, role |-> role, model |-> model, input |-> input,
     ok |-> ok, out |-> out]

\* the classes `except Exception` catches among those the model raises
EXCEPTION_SUBCLASSES ==
    {"RuntimeError", "ValueError", "OSError", "APIError"}

(***************************************************************************)
(* rag_core: ingest_file, load_store, retrieve.  The module is imported by *)
(* streamlit_app.py and is not part of the sources at hand; it is modelled *)
(* from the collaborator contracts.                                        *)
(***************************************************************************)
FILE_REPORT ==
    <<"r","e","p","o","r","t",".","p","d","f">>

DOC_REPORT ==
    <<"0","a","1","b","2","c","3","d","4","e">>

\* the files the user uploads
FILES == {FILE_REPORT}

\* the id ingest_file gives a file
DOC_ID == FILE_REPORT :> DOC_REPORT

\* the passages persisted for each document
CHUNKS ==
    DOC_REPORT :> << [id |-> 0, ref |-> PAGE_2, text |-> TEXT_A],
                     [id |-> 1, ref |-> PAGE_1, text |-> TEXT_B],
                     [id |-> 2, ref |-> PAGE_1, text |-> TEXT_C] >>

\* ingest_file(path) -> documentId, or an ingestion error
ingest_file(path, ok) ==
    IF ok THEN Return(DOC_ID[path], <<Call("ingest_file", "", "", <<>>, TRUE, <<>>)>>)
    ELSE Raise(Exc("ValueError", INGEST_ERROR),
               <<Call("ingest_file", "", "", <<>>, FALSE, INGEST_ERROR)>>)

\* load_store(storeLocation, documentId) -> Document, or a failure
load_store(location, doc_id, ok) ==
    IF ok /\ doc_id \in DOMAIN CHUNKS
    THEN Return([chunks |-> CHUNKS[doc_id]],
                <<Call("load_store", "", "", <<>>, TRUE, <<>>)>>)
    ELSE Raise(Exc("OSError", STORE_ERROR),
               <<Call("load_store", "", "", <<>>, FALSE, STORE_ERROR)>>)

\* the ranking of a document's passages for a question: the typed question
\* ranks them in stored order, a sample question starts at the second one
Ranking(doc, question) ==
    IF question = TYPED_Q \/ Len(doc.chunks) < 2 THEN doc.chunks
    ELSE Tail(doc.chunks) \o <<Head(doc.chunks)>>

\* retrieve(document, question, k) -> up to k hits by descending score;
\* n is how many the ranking function finds relevant
retrieve(doc, question, k, ok, n) ==
    IF ~ok
    THEN Raise(Exc("ValueError", RETRIEVE_ERROR),
               <<Call("retrieve", "", "", <<>>, FALSE, RETRIEVE_ERROR)>>)
    ELSE LET ranked == Ranking(doc, question)
             m == IF n < k THEN n ELSE k
             len == IF m < Len(ranked) THEN m ELSE Len(ranked)
             hits == [i \in 1..len |->
                        [id |-> ranked[i].id, ref |-> ranked[i].ref,
                         text |-> ranked[i].text, score |-> 100 - 10 * i]]
         IN  Return(hits, <<Call("retrieve", "", "", <<>>, TRUE, hits)>>)

(***************************************************************************)
(* llm_providers.py                                                        *)
(***************************************************************************)
provider_names == <<GEMINI, GROQ>>

\* the default of _make_context's max_chars
MAX_CHARS == 6000

\* the block of one hit: f"[{h['ref']}]\n{h['text']}\n"
Block(h) == <<"[">> \o h.ref \o <<"]", "\n">> \o h.text \o <<"\n">>

\* Variant of Blocks: the hits are told apart by their ref.
RECURSIVE Blocks_KeyedByRef(_, _)
Blocks_KeyedByRef(hits, used) ==
    IF hits = <<>> THEN <<>>
    ELSE IF Head(hits).ref \in used THEN Blocks_KeyedByRef(Tail(hits), used)
    ELSE <<Block(Head(hits))>>
         \o Blocks_KeyedByRef(Tail(hits), used \cup {Head(hits).ref})

\* the loop of _make_context: one block per hit whose id was not seen before
RECURSIVE Blocks(_, _)
Blocks(hits, used) ==
    IF hits = <<>> THEN <<>>
    ELSE IF Head(hits).id \in used THEN Blocks(Tail(hits), used)
    ELSE <<Block(Head(hits))>> \o Blocks(Tail(hits), used \cup {Head(hits).id})

\* Variant of _make_context: the whole string is cut, not the passages.
_make_context_CutsAll(hits, question, max_chars) ==
    Prefix(CTX_HEADER \o Join(CTX_SEP, Blocks(hits, {}))
                      \o CTX_QUESTION \o question, max_chars)

_make_context(hits, question, max_chars) ==
    CTX_HEADER \o Prefix(Join(CTX_SEP, Blocks(hits, {})), max_chars)
               \o CTX_QUESTION \o question

\* the model identities of the two roles, per backend
GEMINI_MODEL_DOC == "gemini-2.5-flash"
GEMINI_MODEL_TOP == "gemini-2.5-pro"
_GROQ_MODEL_DOC == "llama-3.1-8b-instant"
_GROQ_MODEL_TOP == "llama-3.3-70b-versatile"

\* sys is the process: the two import flags, and the environment variables
\* that os.getenv finds set to a non-empty value
_gemini_client(sys) ==
    IF ~sys._has_genai
    THEN Raise(Exc("RuntimeError", GENAI_NOT_INSTALLED),
               <<Call("genai.Client", "client", "", <<>>, FALSE, GENAI_NOT_INSTALLED)>>)
    ELSE IF "GEMINI_API_KEY" \notin sys.environ
    THEN Raise(Exc("RuntimeError", GEMINI_KEY_MISSING),
               <<Call("genai.Client", "client", "", <<>>, FALSE, GEMINI_KEY_MISSING)>>)
    ELSE Return("genai.Client",
                <<Call("genai.Client", "client", "", <<>>, TRUE, <<>>)>>)

_groq_client(sys) ==
    IF ~sys._has_groq
    THEN Raise(Exc("RuntimeError", GROQ_NOT_INSTALLED),
               <<Call("Groq", "client", "", <<>>, FALSE, GROQ_NOT_INSTALLED)>>)
    ELSE IF "GROQ_API_KEY" \notin sys.environ
    THEN Raise(Exc("RuntimeError", GROQ_KEY_MISSING),
               <<Call("Groq", "client", "", <<>>, FALSE, GROQ_KEY_MISSING)>>)
    ELSE Return("Groq", <<Call("Groq", "client", "", <<>>, TRUE, <<>>)>>)

\* Variant of Request: a failed request is sent a second time.
Request_Retry(fn, role, model, input, rsp) ==
    IF rsp.ok
    THEN Return(Strip(rsp.text), <<Call(fn, role, model, input, TRUE, rsp.text)>>)
    ELSE Raise(Exc("APIError", rsp.text),
               <<Call(fn, role, model, input, FALSE, rsp.text),
                 Call(fn, role, model, input, FALSE, rsp.text)>>)

\* one request to a backend: rsp is what the backend does with it, a reply
\* text or an error; the adapter strips the reply
Request(fn, role, model, input, rsp) ==
    IF rsp.ok
    THEN Return(Strip(rsp.text), <<Call(fn, role, model, input, TRUE, rsp.text)>>)
    ELSE Raise(Exc("APIError", rsp.text),
               <<Call(fn, role, model, input, FALSE, rsp.text)>>)

\* r, after the calls already made
After(calls, r) == [r EXCEPT !.calls = calls \o @]

\* the body of an adapter function once the client call has returned or
\* raised: the request is made with the client, if there is one
WithClient(client, fn, role, model, input, rsp) ==
    IF ~client.ok THEN client
    ELSE After(client.calls, Request(fn, role, model, input, rsp))

_gemini_doc_answer(hits, question, sys, rsp) ==
    WithClient(_gemini_client(sys), "responses.generate", "doc", GEMINI_MODEL_DOC,
               DOC_PROMPT \o <<"\n", "\n">> \o _make_context(hits, question, MAX_CHARS),
               rsp)

_gemini_topical_answer(question, sys, rsp) ==
    WithClient(_gemini_client(sys), "responses.generate", "topical", GEMINI_MODEL_TOP,
               TOPICAL_PROMPT \o TOPICAL_Q \o question, rsp)

_groq_doc_answer(hits, question, sys, rsp) ==
    WithClient(_groq_client(sys), "chat.completions.create", "doc", _GROQ_MODEL_DOC,
               DOC_PROMPT \o <<"\n", "\n">> \o _make_context(hits, question, MAX_CHARS),
               rsp)

_groq_topical_answer(question, sys, rsp) ==
    WithClient(_groq_client(sys), "chat.completions.create", "topical", _GROQ_MODEL_TOP,
               TOPICAL_PROMPT \o TOPICAL_Q \o question, rsp)

\* Variant of generate_doc_answer: Groq is the default backend.
generate_doc_answer_Default(hits, question, provider, sys, rsp) ==
    IF provider = GEMINI THEN _gemini_doc_answer(hits, question, sys, rsp)
    ELSE _groq_doc_answer(hits, question, sys, rsp)

generate_doc_answer(hits, question, provider, sys, rsp) ==
    IF provider = GEMINI THEN _gemini_doc_answer(hits, question, sys, rsp)
    ELSE IF provider = GROQ THEN _groq_doc_answer(hits, question, sys, rsp)
    ELSE Raise(Exc("ValueError", UNKNOWN_PROVIDER \o provider), <<>>)

generate_topical_answer(question, provider, sys, rsp) ==
    IF provider = GEMINI THEN _gemini_topical_answer(question, sys, rsp)
    ELSE IF provider = GROQ THEN _groq_topical_answer(question, sys, rsp)
    ELSE Raise(Exc("ValueError", UNKNOWN_PROVIDER \o provider), <<>>)

(***************************************************************************)
(* streamlit_app.py: the session and ask_and_answer                        *)
(***************************************************************************)
\* retrieve's k
K == 6

SAMPLE_QS == <<SAMPLE_0, SAMPLE_1, SAMPLE_2, SAMPLE_3>>

\* _init_state
InitialSession ==
    [doc_id |-> None, doc_name |-> None, doc_refs |-> <<>>,
     messages |-> <<>>, pending_question |-> None]

\* Variant of AppendMessage: the message is put in front (insert(0, m)).
AppendMessage_Prepend(ss, m) == [ss EXCEPT !.messages = <<m>> \o @]

\* st.session_state.messages.append(m)
AppendMessage(ss, m) == [ss EXCEPT !.messages = Append(@, m)]

\* the outcome of a part of the script: the session after it, the calls
\* ask_and_answer made, and whether an exception left the script
Outcome(ss, calls, escaped) ==
    [session_state |-> ss, calls |-> calls, escaped |-> escaped]

\* Variant of HasDocument: the guard is missing.
HasDocument_Always(ss) == TRUE

\* the guard of line 145, negated
HasDocument(ss) == Truthy(ss.doc_id)

\* Variant of IsFallback: the test is case-sensitive.
IsFallback_CaseSensitive(ans_doc) == Contains(ans_doc, FALLBACK_PHRASE)

\* the fallback trigger of line 162
IsFallback(ans_doc) == Contains(Lower(ans_doc), FALLBACK_PHRASE)

\* Variant of Citations: only the best hit is credited.
Citations_BestHit(hits) == IF hits = <<>> THEN <<>> ELSE <<hits[1].ref>>

\* the citations of a grounded answer: [h["ref"] for h in hits]
Citations(hits) == [i \in 1..Len(hits) |-> hits[i].ref]

\* the assistant message of a successful turn (lines 173-181)
AnswerMessage(ans, citations, mode, hits) ==
    [role |-> "assistant", content |-> ans, citations |-> citations,
     mode |-> mode, retrieved |-> hits]

\* Variant of Catches: the clause is `except RuntimeError`.
Catches_RuntimeError(e) == e.type = "RuntimeError"

\* whether the except clause of ask_and_answer catches e
Catches(e) == e.type \in EXCEPTION_SUBCLASSES

\* Variant of ErrorMessage: the message is labelled as an off-doc answer.
ErrorMessage_OffDoc(e) ==
    [role |-> "assistant", content |-> ERR_PREFIX \o e.msg,
     citations |-> <<>>, mode |-> "off-doc"]

\* Variant of ErrorMessage: the exception's text is left out.
ErrorMessage_NoText(e) == [role |-> "assistant", content |-> ERR_PREFIX]

\* the message of the except clause (lines 189-190)
ErrorMessage(e) == [role |-> "assistant", content |-> ERR_PREFIX \o e.msg]

\* The try block (lines 153-181), statement by statement.  Each operator is
\* the rest of the block after one call returned or raised; the result is
\* the assistant message to append and the calls made, or the exception.
\* `in` holds what the collaborators do during this run.

\* Variant of AfterTopical: the off-doc answer is credited with the hits.
AfterTopical_CreditsHits(calls, hits, top) ==
    IF ~top.ok THEN Raise(top.exc, calls \o top.calls)
    ELSE Return(AnswerMessage(top.val, Citations(hits), "off-doc", hits),
                calls \o top.calls)

\* lines 164-181, after generate_topical_answer
AfterTopical(calls, hits, top) ==
    IF ~top.ok THEN Raise(top.exc, calls \o top.calls)
    ELSE Return(AnswerMessage(top.val, <<>>, "off-doc", hits), calls \o top.calls)

\* Variant of AfterDocAnswer: a failed grounded call is treated like a
\* "not found" reply, and the topical answer is asked for.
AfterDocAnswer_OnFailure(calls, hits, ans_doc, question, provider, sys, in) ==
    IF ~ans_doc.ok \/ IsFallback(ans_doc.val)
    THEN AfterTopical(calls \o ans_doc.calls, hits,
                      generate_topical_answer(question, provider, sys, in.top))
    ELSE Return(AnswerMessage(ans_doc.val, Citations(hits), "doc", hits),
                calls \o ans_doc.calls)

\* lines 162-181, after generate_doc_answer
AfterDocAnswer(calls, hits, ans_doc, question, provider, sys, in) ==
    IF ~ans_doc.ok THEN Raise(ans_doc.exc, calls \o ans_doc.calls)
    ELSE IF IsFallback(ans_doc.val)
    THEN AfterTopical(calls \o ans_doc.calls, hits,
                      generate_topical_answer(question, provider, sys, in.top))
    ELSE Return(AnswerMessage(ans_doc.val, Citations(hits), "doc", hits),
                calls \o ans_doc.calls)

\* lines 159-181, after retrieve
AfterRetrieve(calls, hits, question, provider, sys, in) ==
    IF ~hits.ok THEN Raise(hits.exc, calls \o hits.calls)
    ELSE AfterDocAnswer(calls \o hits.calls, hits.val,
                        generate_doc_answer(hits.val, question, provider, sys, in.doc),
                        question, provider, sys, in)

\* lines 156-181, after load_store
AfterLoadStore(doc, question, provider, sys, in) ==
    IF ~doc.ok THEN Raise(doc.exc, doc.calls)
    ELSE AfterRetrieve(doc.calls,
                       retrieve(doc.val, question, K, in.retrieve_ok, in.n),
                       question, provider, sys, in)

TryAnswer(ss, question, provider, sys, in) ==
    AfterLoadStore(load_store("store", ss.doc_id, in.load_ok),
                   question, provider, sys, in)

\* the end of the try statement (lines 173-192): t is what the block did
EndTry(s1, t) ==
    IF t.ok THEN Outcome(AppendMessage(s1, t.val), t.calls, FALSE)
    ELSE IF Catches(t.exc)
    THEN Outcome(AppendMessage(s1, ErrorMessage(t.exc)), t.calls, FALSE)
    ELSE Outcome(s1, t.calls, TRUE)

\* lines 145-192: s1 is the session with the user's message appended
AfterEcho(s1, question, provider, sys, in) ==
    IF ~HasDocument(s1)
    THEN Outcome(AppendMessage(s1, [role |-> "assistant",
                                    content |-> NO_DOC_REPLY]),
                 <<>>, FALSE)
    ELSE EndTry(s1, TryAnswer(s1, question, provider, sys, in))

ask_and_answer(ss, question, provider, sys, in) ==
    AfterEcho(AppendMessage(ss, [role |-> "user", content |-> question]),
              question, provider, sys, in)

(***************************************************************************)
(* streamlit_app.py: the export of the chat (lines 233-249).               *)
(***************************************************************************)
ROLE_USER ==
    <<"U","s","e","r">>

ROLE_ASSISTANT ==
    <<"A","s","s","i","s","t","a","n","t">>

MD_CITATIONS ==
    <<"_","C","i","t","a","t","i","o","n","s",":","_"," ">>

COMMA_SPACE ==
    <<","," ">>

NEWLINE ==
    <<"\n">>

KEY_ROLE ==
    <<"r","o","l","e">>

KEY_CONTENT ==
    <<"c","o","n","t","e","n","t">>

KEY_CITATIONS ==
    <<"c","i","t","a","t","i","o","n","s">>

KEY_MODE ==
    <<"m","o","d","e">>

KEY_RETRIEVED ==
    <<"r","e","t","r","i","e","v","e","d">>

KEY_ID ==
    <<"i","d">>

KEY_REF ==
    <<"r","e","f">>

KEY_TEXT ==
    <<"t","e","x","t">>

KEY_SCORE ==
    <<"s","c","o","r","e">>

ROLE_USER_VALUE ==
    <<"u","s","e","r">>

ROLE_ASSISTANT_VALUE ==
    <<"a","s","s","i","s","t","a","n","t">>

MODE_DOC ==
    <<"d","o","c">>

MODE_OFF_DOC ==
    <<"o","f","f","-","d","o","c">>

\* the str of a message's "role" and "mode"
RoleValue(m) == IF m.role = "user" THEN ROLE_USER_VALUE ELSE ROLE_ASSISTANT_VALUE
ModeValue(m) == IF m.mode = "doc" THEN MODE_DOC ELSE MODE_OFF_DOC

\* f"**{role}:** {m['content']}" (lines 238-239)
MdHead(m) ==
    <<"*", "*">> \o (IF m.role = "user" THEN ROLE_USER ELSE ROLE_ASSISTANT)
                 \o <<":", "*", "*", " ">> \o m.content

\* m.get("citations") or []
Cits(m) == IF "citations" \in DOMAIN m THEN m.citations ELSE <<>>

\* f"_Citations:_ {', '.join(sorted(set(cits)))}" (line 242)
MdCitations(cits) ==
    MD_CITATIONS \o Join(COMMA_SPACE, Sorted({cits[i] : i \in 1..Len(cits)}))

\* the lines one message adds to md (lines 238-243)
MdBlock(m) ==
    <<MdHead(m)>> \o (IF Cits(m) # <<>> THEN <<MdCitations(Cits(m))>> ELSE <<>>)
                  \o << <<>> >>

\* Variant of Md: each block is put in front of the list (md.insert(0, ...)).
RECURSIVE Md_NewestFirst(_)
Md_NewestFirst(messages) ==
    IF messages = <<>> THEN <<>>
    ELSE Md_NewestFirst(Tail(messages)) \o MdBlock(Head(messages))

\* the list md after the loop of lines 237-243
RECURSIVE Md(_)
Md(messages) ==
    IF messages = <<>> THEN <<>>
    ELSE MdBlock(Head(messages)) \o Md(Tail(messages))

\* json.dumps(..., ensure_ascii=False, indent=2): a str
JSON_ESCAPES ==
    [c \in {"\"", "\\", "\n", "\t"} |->
        IF c = "\"" THEN <<"\\", "\"">>
        ELSE IF c = "\\" THEN <<"\\", "\\">>
        ELSE IF c = "\n" THEN <<"\\", "n">>
        ELSE <<"\\", "t">>]

RECURSIVE JsonEscape(_)
JsonEscape(s) ==
    IF s = <<>> THEN <<>>
    ELSE (IF Head(s) \in DOMAIN JSON_ESCAPES THEN JSON_ESCAPES[Head(s)]
          ELSE <<Head(s)>>) \o JsonEscape(Tail(s))

JsonStr(s) ==
    <<"\"">> \o (IF \A i \in 1..Len(s) : s[i] \notin DOMAIN JSON_ESCAPES
                 THEN s ELSE JsonEscape(s))
             \o <<"\"">>

\* ... an int
DIGITS == <<"0", "1", "2", "3", "4", "5", "6", "7", "8", "9">>

RECURSIVE JsonInt(_)
JsonInt(n) ==
    IF n < 10 THEN <<DIGITS[n + 1]>>
    ELSE JsonInt(n \div 10) \o <<DIGITS[(n % 10) + 1]>>

\* ... a float; the model keeps a score in hundredths
JsonFloat(s) ==
    JsonInt(s \div 100) \o <<".", DIGITS[((s % 100) \div 10) + 1]>>
        \o (IF s % 10 = 0 THEN <<>> ELSE <<DIGITS[(s % 10) + 1]>>)

\* ... a list or dict whose items are already dumped, at indentation ind
Pad(n) == [i \in 1..n |-> " "]

JsonItems(open, close, items, ind) ==
    IF items = <<>> THEN <<open, close>>
    ELSE <<open, "\n">>
         \o Join(<<",", "\n">>,
                 [i \in 1..Len(items) |-> Pad(ind + 2) \o items[i]])
         \o <<"\n">> \o Pad(ind) \o <<close>>

JsonPair(key, value) == JsonStr(key) \o <<":", " ">> \o value

\* ... a hit, as retrieve returns it
JsonHit(h, ind) ==
    JsonItems("{", "}",
              <<JsonPair(KEY_ID, JsonInt(h.id)),
                JsonPair(KEY_REF, JsonStr(h.ref)),
                JsonPair(KEY_TEXT, JsonStr(h.text)),
                JsonPair(KEY_SCORE, JsonFloat(h.score))>>, ind)

JsonStrList(l, ind) ==
    JsonItems("[", "]", [i \in 1..Len(l) |-> JsonStr(l[i])], ind)

JsonHitList(l, ind) ==
    JsonItems("[", "]", [i \in 1..Len(l) |-> JsonHit(l[i], ind + 2)], ind)

\* ... a message: the keys it has, in the order the dict was built with
JsonMessage(m, ind) ==
    JsonItems("{", "}",
              <<JsonPair(KEY_ROLE, JsonStr(RoleValue(m))),
                JsonPair(KEY_CONTENT, JsonStr(m.content))>>
              \o (IF "citations" \in DOMAIN m
                  THEN <<JsonPair(KEY_CITATIONS, JsonStrList(m.citations, ind + 2))>>
                  ELSE <<>>)
              \o (IF "mode" \in DOMAIN m
                  THEN <<JsonPair(KEY_MODE, JsonStr(ModeValue(m)))>>
                  ELSE <<>>)
              \o (IF "retrieved" \in DOMAIN m
                  THEN <<JsonPair(KEY_RETRIEVED, JsonHitList(m.retrieved, ind + 2))>>
                  ELSE <<>>), ind)

JsonDumps(messages) ==
    JsonItems("[", "]",
              [i \in 1..Len(messages) |-> JsonMessage(messages[i], 2)], 0)

(***************************************************************************)
(* streamlit_app.py: one run of the script.  Streamlit runs the script     *)
(* from top to bottom once per widget event; ev is that event.             *)
(***************************************************************************)
\* Variant of Sidebar: "Clear Doc" resets the chat as well.
Sidebar_ClearDocResetsChat(ss, ev) ==
    IF ev.widget = "clear_chat" THEN [ss EXCEPT !.messages = <<>>]
    ELSE IF ev.widget = "clear_doc"
    THEN [ss EXCEPT !.doc_id = None, !.doc_name = None, !.doc_refs = <<>>,
                    !.messages = <<>>]
    ELSE IF ev.widget = "sample"
    THEN [ss EXCEPT !.pending_question = SAMPLE_QS[ev.i]]
    ELSE ss

\* the sidebar buttons (lines 45-67)
Sidebar(ss, ev) ==
    IF ev.widget = "clear_chat" THEN [ss EXCEPT !.messages = <<>>]
    ELSE IF ev.widget = "clear_doc"
    THEN [ss EXCEPT !.doc_id = None, !.doc_name = None, !.doc_refs = <<>>]
    ELSE IF ev.widget = "sample"
    THEN [ss EXCEPT !.pending_question = SAMPLE_QS[ev.i]]
    ELSE ss

\* sorted({c["ref"] for c in doc.chunks})
UniqueRefs(doc) == Sorted({doc.chunks[i].ref : i \in 1..Len(doc.chunks)})

\* Variant of AfterIndexLoad: a successful indexing also starts a new chat
\* (st.session_state.messages = []).
AfterIndexLoad_ClearsChat(s1, doc) ==
    IF ~doc.ok THEN Outcome(s1, <<>>, ~Catches(doc.exc))
    ELSE Outcome([s1 EXCEPT !.doc_refs = UniqueRefs(doc.val),
                            !.messages = <<>>], <<>>, FALSE)

\* lines 111-117, after load_store: s1 has the new doc_id and doc_name
AfterIndexLoad(s1, doc) ==
    IF ~doc.ok THEN Outcome(s1, <<>>, ~Catches(doc.exc))
    ELSE Outcome([s1 EXCEPT !.doc_refs = UniqueRefs(doc.val)], <<>>, FALSE)

\* lines 107-117, after ingest_file
AfterIngest(ss, ev, ing, in) ==
    IF ~ing.ok THEN Outcome(ss, <<>>, ~Catches(ing.exc))
    ELSE AfterIndexLoad([ss EXCEPT !.doc_id = ing.val, !.doc_name = ev.file],
                        load_store("store", ing.val, in.index_load_ok))

\* the "Index document" block (lines 101-117)
IndexBlock(ss, ev, in) ==
    IF ev.widget # "index" THEN Outcome(ss, <<>>, FALSE)
    ELSE AfterIngest(ss, ev, ingest_file(ev.file, in.ingest_ok), in)

\* the condition of line 197; typed is st.chat_input's value
UsePending(ss, typed) == Truthy(ss.pending_question) /\ ~Truthy(typed)

\* lines 201-202
AskIf(ss, question, provider, sys, in) ==
    IF Truthy(question)
    THEN [asked |-> question] @@ ask_and_answer(ss, question, provider, sys, in)
    ELSE [asked |-> None] @@ Outcome(ss, <<>>, FALSE)

\* Variant of Dispatch: the pending question is used and not reset.
Dispatch_KeepsPending(ss, typed, provider, sys, in) ==
    IF UsePending(ss, typed)
    THEN AskIf(ss, ss.pending_question, provider, sys, in)
    ELSE AskIf(ss, typed, provider, sys, in)

\* the question dispatch (lines 196-202)
Dispatch(ss, typed, provider, sys, in) ==
    IF UsePending(ss, typed)
    THEN AskIf([ss EXCEPT !.pending_question = None], ss.pending_question,
               provider, sys, in)
    ELSE AskIf(ss, typed, provider, sys, in)

\* the script after the "Index document" block; b is that block's outcome
AfterIndexBlock(b, ev, provider, sys, in) ==
    IF b.escaped THEN [asked |-> None] @@ b
    ELSE Dispatch(b.session_state, ev.typed, provider, sys, in)

\* The rest of the script (lines 205-249) renders panels and the download
\* buttons from the session and assigns no field of it.
ScriptRun(ss, ev, provider, sys, in) ==
    AfterIndexBlock(IndexBlock(Sidebar(ss, ev), ev, in), ev, provider, sys, in)

(***************************************************************************)
(* The state.                                                              *)
(***************************************************************************)
VARIABLES
    session_state,  \* st.session_state: doc_id, doc_name, doc_refs, messages,
                    \*                   pending_question
    provider,       \* the value of the provider selectbox
    _has_genai,     \* llm_providers._has_genai
    _has_groq,      \* llm_providers._has_groq
    last,           \* the last script run: the question it asked (None if
                    \* none), the collaborator calls ask_and_answer made, in
                    \* order, and whether an exception left the script
    result          \* the last direct call of generate_doc_answer or
                    \* generate_topical_answer: the function, the provider
                    \* identifier it was given and what it returned or raised

vars == <<session_state, provider, _has_genai, _has_groq, last, result>>

\* The data of the two download buttons (lines 233-249), as the script
\* renders them from the session at the end of a run; None when the button
\* is not shown.
md_text ==
    IF session_state.messages = <<>> THEN None
    ELSE Join(NEWLINE, Md(session_state.messages))

json_blob ==
    IF session_state.messages = <<>> THEN None
    ELSE JsonDumps(session_state.messages)

API_KEYS == {"GEMINI_API_KEY", "GROQ_API_KEY"}

Event(widget, typed, file, i) ==
    [widget |-> widget, typed |-> typed, file |-> file, i |-> i]

\* what the backends may answer to a grounded and to a topical request
NotFoundReplies ==
    {[ok |-> TRUE, text |-> t] : t \in {RAW_NOT_FOUND, RAW_NOT_FOUND_CAPS}}

DocReplies ==
    {[ok |-> TRUE, text |-> t] : t \in {RAW_ANSWER, RAW_NEAR_MISS}}
    \cup NotFoundReplies
    \cup {[ok |-> FALSE, text |-> API_ERROR]}

TopicalReplies ==
    {[ok |-> TRUE, text |-> t] : t \in {RAW_LABELLED, RAW_UNLABELLED}}
    \cup {[ok |-> FALSE, text |-> API_ERROR]}

DefaultDoc == [ok |-> TRUE, text |-> RAW_ANSWER]
DefaultTop == [ok |-> TRUE, text |-> RAW_LABELLED]

\* What the collaborators do during a run that asks a question: the API keys
\* os.getenv finds, whether load_store and retrieve succeed, how many hits
\* retrieve returns, and the backends' replies.  A collaborator that is not
\* reached (after a failure, or the topical backend after a grounded reply
\* the backend did not word as "not found") is given one value only.
TurnInputs ==
    {in \in [environ : SUBSET API_KEYS,
             ingest_ok : {TRUE}, index_load_ok : {TRUE},
             load_ok : BOOLEAN, retrieve_ok : BOOLEAN, n : 0..MaxHits,
             doc : DocReplies, top : TopicalReplies] :
        /\ ~in.load_ok => in.retrieve_ok
        /\ ~(in.load_ok /\ in.retrieve_ok) => in.n = 0 /\ in.doc = DefaultDoc
        /\ in.doc \notin NotFoundReplies => in.top = DefaultTop}

\* ... during a run that indexes a document
IndexInputs ==
    [environ : {API_KEYS}, ingest_ok : BOOLEAN, index_load_ok : BOOLEAN,
     load_ok : {TRUE}, retrieve_ok : {TRUE}, n : {0},
     doc : {DefaultDoc}, top : {DefaultTop}]

\* ... and during a run that does neither
NoInputs ==
    [environ : {API_KEYS}, ingest_ok : {TRUE}, index_load_ok : {TRUE},
     load_ok : {TRUE}, retrieve_ok : {TRUE}, n : {0},
     doc : {DefaultDoc}, top : {DefaultTop}]

\* the process during a run
Sys(in) ==
    [_has_genai |-> _has_genai, _has_groq |-> _has_groq, environ |-> in.environ]

\* a call as the log keeps it: without the request text
Logged(calls) ==
    [i \in 1..Len(calls) |->
        [fn |-> calls[i].fn, role |-> calls[i].role, model |-> calls[i].model,
         ok |-> calls[i].ok, out |-> calls[i].out]]

NoResult == [fn |-> "", provider |-> None, ret |-> Return(<<>>, <<>>)]

Init ==
    /\ session_state = InitialSession
    /\ provider = provider_names[1]
    /\ _has_genai \in BOOLEAN
    /\ _has_groq \in BOOLEAN
    /\ last = [asked |-> None, calls |-> <<>>, escaped |-> FALSE]
    /\ result = NoResult

\* the state after a script run that did r
Commit(r) ==
    /\ session_state' = r.session_state
    /\ last' = [asked |-> r.asked, calls |-> Logged(r.calls),
                escaped |-> r.escaped]

Run(ev, p, inputs) ==
    \E in \in inputs : Commit(ScriptRun(session_state, ev, p, Sys(in), in))

\* "Clear Chat"
ClearChat ==
    /\ Run(Event("clear_chat", None, None, 0), provider, NoInputs)
    /\ UNCHANGED <<provider, _has_genai, _has_groq, result>>

\* "Clear Doc"
ClearDoc ==
    /\ Run(Event("clear_doc", None, None, 0), provider, NoInputs)
    /\ UNCHANGED <<provider, _has_genai, _has_groq, result>>

\* a sample-question button
SampleQuestion ==
    /\ Len(session_state.messages) + 2 <= MaxMessages
    /\ \E i \in 1..Len(SAMPLE_QS) :
        /\ i <= MaxSample
        /\ Run(Event("sample", None, None, i), provider, TurnInputs)
    /\ UNCHANGED <<provider, _has_genai, _has_groq, result>>

\* "Index document" with a file uploaded
IndexDocument ==
    /\ \E f \in FILES : Run(Event("index", None, f, 0), provider, IndexInputs)
    /\ UNCHANGED <<provider, _has_genai, _has_groq, result>>

\* a question typed into the chat input
ChatInput ==
    /\ Len(session_state.messages) + 2 <= MaxMessages
    /\ Run(Event("chat_input", TYPED_Q, None, 0), provider, TurnInputs)
    /\ UNCHANGED <<provider, _has_genai, _has_groq, result>>

\* another provider picked in the selectbox
SelectProvider ==
    /\ \E i \in 1..Len(provider_names) :
        /\ provider_names[i] # provider
        /\ provider' = provider_names[i]
        /\ Run(Event("provider", None, None, 0), provider_names[i], NoInputs)
    /\ UNCHANGED <<_has_genai, _has_groq, result>>

\* a download button, shown while there are messages: the browser is sent
\* md_text or json_blob, and the script runs again
DownloadChat ==
    /\ session_state.messages # <<>>
    /\ \E w \in {"download_md", "download_json"} :
        Run(Event(w, None, None, 0), provider, NoInputs)
    /\ UNCHANGED <<provider, _has_genai, _has_groq, result>>

Next ==
    \/ ClearChat
    \/ ClearDoc
    \/ SampleQuestion
    \/ IndexDocument
    \/ ChatInput
    \/ SelectProvider
    \/ DownloadChat

Spec == Init /\ [][Next]_vars

(***************************************************************************)
(* The provider functions called directly, with any provider identifier.   *)
(* streamlit_app.py only passes a value of the selectbox; other callers of *)
(* llm_providers.py may pass any string.                                   *)
(***************************************************************************)
\* the identifiers tried: the two names, and three strings that are no name
ProviderIds == {GEMINI, GROQ, OPENAI, GEMINI_LOWER, <<>>}

\* the hits of a retrieval that finds n passages of the report
HitsOf(question, n) ==
    retrieve([chunks |-> CHUNKS[DOC_REPORT]], question, K, TRUE, n).val

CallDocAnswer ==
    /\ \E p \in ProviderIds, q \in {TYPED_Q, SAMPLE_QS[1]}, n \in 0..MaxHits,
          env \in SUBSET API_KEYS, rsp \in DocReplies :
        result' = [fn |-> "generate_doc_answer", provider |-> p,
                   ret |-> generate_doc_answer(
                       HitsOf(q, n), q, p,
                       [_has_genai |-> _has_genai, _has_groq |-> _has_groq,
                        environ |-> env], rsp)]
    /\ UNCHANGED <<session_state, provider, _has_genai, _has_groq, last>>

CallTopicalAnswer ==
    /\ \E p \in ProviderIds, q \in {TYPED_Q, SAMPLE_QS[1]},
          env \in SUBSET API_KEYS, rsp \in TopicalReplies :
        result' = [fn |-> "generate_topical_answer", provider |-> p,
                   ret |-> generate_topical_answer(
                       q, p,
                       [_has_genai |-> _has_genai, _has_groq |-> _has_groq,
                        environ |-> env], rsp)]
    /\ UNCHANGED <<session_state, provider, _has_genai, _has_groq, last>>

NextProviders ==
    \/ CallDocAnswer
    \/ CallTopicalAnswer

SpecProviders == Init /\ [][NextProviders]_vars

(***************************************************************************)
(* _make_context called directly, with any sequence of hits: a retrieval   *)
(* may return the same passage more than once.                             *)
(***************************************************************************)
\* the longest sequence of hits tried
MaxContextHits == 3

\* the hits tried: the three passages of the report, and the first of them
\* as another retrieval pass returns it
ContextHits ==
    {HitsOf(TYPED_Q, 3)[i] : i \in 1..3}
    \cup {[id |-> 0, ref |-> PAGE_2, text |-> TEXT_C, score |-> 60]}

\* the values of max_chars tried: the default, and three that cut
ContextLimits == {0, 9, 40, MAX_CHARS}

CallMakeContext ==
    /\ result = NoResult
    /\ \E n \in 0..MaxContextHits, q \in {TYPED_Q, SAMPLE_QS[1]},
          max_chars \in ContextLimits :
        \E hits \in [1..n -> ContextHits] :
            result' = [fn |-> "_make_context", hits |-> hits, question |-> q,
                       max_chars |-> max_chars,
                       ret |-> Return(_make_context(hits, q, max_chars), <<>>)]
    /\ UNCHANGED <<session_state, provider, _has_genai, _has_groq, last>>

NextContext == CallMakeContext

SpecContext == Init /\ [][NextContext]_vars

(***************************************************************************)
(* Properties.                                                             *)
(***************************************************************************)
Messages == session_state.messages

\* m.get("mode") and m.get("citations") or []
ModeOf(m) == IF "mode" \in DOMAIN m THEN m.mode ELSE "none"
CitationsOf(m) == IF "citations" \in DOMAIN m THEN m.citations ELSE <<>>

\* the entries of a call log made for a role: "client", "doc" or "topical"
CallsIn(calls, role) == {i \in DOMAIN calls : calls[i].role = role}

\* text contains the canonical phrase, in whatever letter case
PhraseInAnyCase(text) ==
    \E i \in 0..(Len(text) - Len(FALLBACK_PHRASE)) :
        \A j \in 1..Len(FALLBACK_PHRASE) :
            LowerChar(text[i + j]) = FALLBACK_PHRASE[j]

\* the grounded backend replied, and its reply has / has not the phrase
GroundedSaidNotFound(calls) ==
    \E i \in CallsIn(calls, "doc") : calls[i].ok /\ PhraseInAnyCase(calls[i].out)
GroundedAnswered(calls) ==
    \E i \in CallsIn(calls, "doc") : calls[i].ok /\ ~PhraseInAnyCase(calls[i].out)

\* the reply of the grounded backend, as the adapter returns it
GroundedResponse(calls) ==
    Strip(calls[CHOOSE i \in CallsIn(calls, "doc") : TRUE].out)

\* the hits retrieve returned, and their refs in order
RetrieveReturned(calls) == \E i \in DOMAIN calls : calls[i].fn = "retrieve" /\ calls[i].ok
HitsReturned(calls) == calls[CHOOSE i \in DOMAIN calls : calls[i].fn = "retrieve"].out
RefsOf(hits) == [i \in 1..Len(hits) |-> hits[i].ref]

\* the step is a run of ask_and_answer that appended exactly a User message
\* with the question and then the Assistant message m
AppendedTurn(m) ==
    session_state'.messages =
        session_state.messages \o <<[role |-> "user", content |-> last'.asked], m>>

DocumentFieldsUnchanged ==
    /\ session_state'.doc_id = session_state.doc_id
    /\ session_state'.doc_name = session_state.doc_name
    /\ session_state'.doc_refs = session_state.doc_refs

\* C1: when the grounded backend's reply contains the canonical phrase in any
\* letter case, the topical backend is called afterwards in the same turn,
\* and if it replies the appended Assistant message has mode off-doc and no
\* citations.
C1_FallbackOnPhrase ==
    \A i \in CallsIn(last.calls, "doc") :
        (last.calls[i].ok /\ PhraseInAnyCase(last.calls[i].out)) =>
            /\ \E j \in CallsIn(last.calls, "topical") : j > i
            /\ \A j \in CallsIn(last.calls, "topical") :
                last.calls[j].ok =>
                    /\ Messages[Len(Messages)].role = "assistant"
                    /\ ModeOf(Messages[Len(Messages)]) = "off-doc"
                    /\ CitationsOf(Messages[Len(Messages)]) = <<>>
                    /\ "citations" \in DOMAIN Messages[Len(Messages)]

\* C1 witness: the phrase came capitalised, and the answer is off-doc
C1_Witness ==
    /\ \E i \in CallsIn(last.calls, "doc") :
        last.calls[i].ok /\ last.calls[i].out = RAW_NOT_FOUND_CAPS
    /\ \E j \in CallsIn(last.calls, "topical") : last.calls[j].ok
    /\ ModeOf(Messages[Len(Messages)]) = "off-doc"

\* C2: every Assistant message with mode off-doc has a content that starts
\* with "Off-doc (related):".
C2_OffDocLabelled ==
    \A i \in DOMAIN Messages :
        ModeOf(Messages[i]) = "off-doc" =>
            StartsWith(Messages[i].content, OFFDOC_LABEL)

\* C3, as claimed: when the grounded reply has not the phrase, the appended
\* message has mode doc, the grounded response as content, and as citations
\* the sorted, deduplicated refs of the hits retrieve returned.
C3_CitationsSortedDeduplicated ==
    GroundedAnswered(last.calls) =>
        /\ Messages[Len(Messages)].role = "assistant"
        /\ ModeOf(Messages[Len(Messages)]) = "doc"
        /\ Messages[Len(Messages)].content = GroundedResponse(last.calls)
        /\ CitationsOf(Messages[Len(Messages)])
              = Sorted(ToSet(RefsOf(HitsReturned(last.calls))))

\* C3, amended: when the grounded reply has not the phrase, the appended
\* message has mode doc, the grounded response as content, and as citations
\* the ref of each hit retrieve returned, one entry per hit in hit order; so
\* the refs cited are exactly the refs of the hits.
C3_CitationsOnePerHit ==
    GroundedAnswered(last.calls) =>
        /\ Messages[Len(Messages)].role = "assistant"
        /\ ModeOf(Messages[Len(Messages)]) = "doc"
        /\ Messages[Len(Messages)].content = GroundedResponse(last.calls)
        /\ CitationsOf(Messages[Len(Messages)]) = RefsOf(HitsReturned(last.calls))
        /\ Messages[Len(Messages)].retrieved = HitsReturned(last.calls)

\* C3 witness: a grounded answer over two hits that share a ref
C3_Witness ==
    /\ GroundedAnswered(last.calls)
    /\ Len(HitsReturned(last.calls)) = 2
    /\ HitsReturned(last.calls)[1].ref = HitsReturned(last.calls)[2].ref
    /\ ModeOf(Messages[Len(Messages)]) = "doc"

\* C4: every run of ask_and_answer appends exactly one User message, with the
\* question, followed by exactly one Assistant message, whatever load_store,
\* retrieve and the two backend calls do; no exception leaves the script.
C4_TurnAppendsUserThenAssistant ==
    [][last'.asked # None =>
          /\ ~last'.escaped
          /\ Len(session_state'.messages) = Len(session_state.messages) + 2
          /\ \E m \in {session_state'.messages[Len(session_state'.messages)]} :
                m.role = "assistant" /\ AppendedTurn(m)]_vars

\* C4 witness: a turn in which retrieve raised, closed by an Assistant message
C4_Witness ==
    /\ last.asked # None
    /\ \E i \in DOMAIN last.calls : last.calls[i].fn = "retrieve" /\ ~last.calls[i].ok
    /\ Messages[Len(Messages)].role = "assistant"

\* C5: with no document, a question is answered by the User message and the
\* fixed Assistant reply, and no collaborator is called.
C5_NoDocumentReply ==
    [][(last'.asked # None /\ session_state.doc_id = None) =>
          /\ AppendedTurn([role |-> "assistant", content |-> NO_DOC_REPLY])
          /\ last'.calls = <<>>]_vars

\* C5 witness: a question was asked with no document
C5_Witness ==
    /\ last.asked # None
    /\ session_state.doc_id = None
    /\ Messages[Len(Messages)].content = NO_DOC_REPLY

\* C6, as claimed: a turn in which retrieve returned makes exactly one
\* grounded backend call and at most one topical backend call.
C6_ExactlyOneGroundedCall ==
    RetrieveReturned(last.calls) =>
        /\ Cardinality(CallsIn(last.calls, "doc")) = 1
        /\ Cardinality(CallsIn(last.calls, "topical")) <= 1

\* C6, amended: a turn in which retrieve returned makes at most one grounded
\* and at most one topical backend call; it makes exactly one grounded call
\* when the backend's client is constructed, and no backend call when the
\* construction fails.
C6_AtMostOneCallEach ==
    RetrieveReturned(last.calls) =>
        /\ Cardinality(CallsIn(last.calls, "doc")) <= 1
        /\ Cardinality(CallsIn(last.calls, "topical")) <= 1
        /\ CallsIn(last.calls, "client") # {}
        /\ \A i \in CallsIn(last.calls, "client") :
            /\ last.calls[i].ok =>
                Cardinality(CallsIn(last.calls, "doc")) = 1
            /\ ~last.calls[i].ok =>
                CallsIn(last.calls, "doc") \cup CallsIn(last.calls, "topical") = {}

\* C6 witness: retrieve returned no hit and the grounded backend was called
C6_Witness ==
    /\ RetrieveReturned(last.calls)
    /\ HitsReturned(last.calls) = <<>>
    /\ Cardinality(CallsIn(last.calls, "doc")) = 1

\* C7: when the grounded backend replies with the phrase and the topical call
\* then fails, the turn appends the User message and one Assistant message
\* that is the error text only: no mode, no citations, not the grounded
\* text; the document fields do not change.
C7_PartialFailureIsError ==
    [][(/\ GroundedSaidNotFound(last'.calls)
        /\ \E j \in CallsIn(last'.calls, "topical") : ~last'.calls[j].ok) =>
          \E j \in CallsIn(last'.calls, "topical") :
              /\ AppendedTurn([role |-> "assistant",
                               content |-> ERR_PREFIX \o last'.calls[j].out])
              /\ ~Contains(ERR_PREFIX \o last'.calls[j].out,
                           GroundedResponse(last'.calls))
              /\ DocumentFieldsUnchanged
              /\ provider' = provider]_vars

\* C7 witness: such a turn, ended by the error message
C7_Witness ==
    /\ GroundedSaidNotFound(last.calls)
    /\ \E j \in CallsIn(last.calls, "topical") : ~last.calls[j].ok
    /\ StartsWith(Messages[Len(Messages)].content, ERR_PREFIX)

\* C8: when the construction of the backend's client fails, the turn appends
\* the User message and an Assistant message containing the error text, no
\* backend call is made, and the document fields and the earlier messages
\* are unchanged.
C8_ConfigurationFailure ==
    [][\A i \in CallsIn(last'.calls, "client") :
          ~last'.calls[i].ok =>
              /\ \E m \in {session_state'.messages[Len(session_state'.messages)]} :
                    /\ AppendedTurn(m)
                    /\ m.role = "assistant"
                    /\ Len(last'.calls[i].out) > 0
                    /\ Contains(m.content, last'.calls[i].out)
              /\ CallsIn(last'.calls, "doc") = {}
              /\ CallsIn(last'.calls, "topical") = {}
              /\ DocumentFieldsUnchanged]_vars

\* the replies to a turn whose client construction failed
ConfigurationErrors ==
    {ERR_PREFIX \o t : t \in {GENAI_NOT_INSTALLED, GEMINI_KEY_MISSING,
                              GROQ_NOT_INSTALLED, GROQ_KEY_MISSING}}

\* C8 witness: a turn failed on the configuration, and the next turn of the
\* same session was answered
C8_Witness ==
    /\ Len(Messages) = 4
    /\ Messages[2].content \in ConfigurationErrors
    /\ ModeOf(Messages[4]) \in {"doc", "off-doc"}
    /\ \E i \in CallsIn(last.calls, "client") : last.calls[i].ok

\* C9: called with an identifier that is none of provider_names(), each of
\* generate_doc_answer and generate_topical_answer raises the
\* unknown-provider error and calls nothing.
C9_UnknownProviderFailsClosed ==
    (result.fn # "" /\ result.provider \notin ToSet(provider_names)) =>
        /\ ~result.ret.ok
        /\ result.ret.exc = Exc("ValueError", UNKNOWN_PROVIDER \o result.provider)
        /\ result.ret.calls = <<>>

\* C9 witness: generate_topical_answer was given "gemini", in lower case
C9_Witness ==
    /\ result.fn = "generate_topical_answer"
    /\ result.provider = GEMINI_LOWER
    /\ ~result.ret.ok

\* C10: an Assistant message with mode doc has citations within the
\* session's doc_refs when it is appended (a turn does not change doc_refs,
\* so right after the turn they are the doc_refs of that moment).
C10_GroundedCitationsWithinDocRefs ==
    (last.asked # None /\ ModeOf(Messages[Len(Messages)]) = "doc") =>
        ToSet(CitationsOf(Messages[Len(Messages)])) \subseteq ToSet(session_state.doc_refs)

\* between script runs no question is pending: a run dispatches the one it set
NoPendingBetweenRuns == session_state.pending_question = None
\* b continues a: a is the beginning of b, element for element
IsPrefix(a, b) == Len(a) <= Len(b) /\ SubSeq(b, 1, Len(a)) = a

\* C11: the history is append-only.  Across every script run except a
\* "Clear Chat" run the messages before the run are the beginning of the
\* messages after it, each one unchanged; a "Clear Doc" run and a download
\* run leave the messages exactly as they were.
C11_HistoryAppendOnly ==
    [][/\ IsPrefix(session_state.messages, session_state'.messages)
          \/ ClearChat
       /\ session_state'.messages = session_state.messages
          \/ ~(ClearDoc \/ DownloadChat)]_vars

\* C11 witness: a turn was appended to a history that had a turn already
C11_Witness ==
    /\ Len(session_state.messages) = 4
    /\ last.asked # None

\* the step is an "Index document" run in which ingest_file and load_store
\* both succeed
IndexSucceeds ==
    \E f \in FILES : \E in \in IndexInputs :
        /\ in.ingest_ok
        /\ in.index_load_ok
        /\ Commit(ScriptRun(session_state, Event("index", None, f, 0),
                            provider, Sys(in), in))

\* C12, as claimed: after a successful indexing of a document the history
\* is empty.
C12_IndexClearsMessages ==
    [][session_state'.messages = <<>> \/ ~IndexSucceeds]_vars

\* C12, amended: a successful indexing of a document leaves the history as
\* it was.
C12_IndexKeepsMessages ==
    [][session_state'.messages = session_state.messages \/ ~IndexSucceeds]_vars

\* C12 witness: a question was asked before any document was indexed, and
\* the turn is still in the history after the indexing
C12_Witness ==
    /\ Len(session_state.messages) = 2
    /\ session_state.messages[2].content = NO_DOC_REPLY
    /\ session_state.doc_refs # <<>>

\* C13: a "Clear Doc" run unsets doc_id, doc_name and doc_refs and leaves
\* messages and pending_question as they were; a "Clear Chat" run empties
\* messages and leaves doc_id, doc_name, doc_refs and pending_question as
\* they were.
C13_ClearsAreDisjoint ==
    [][/\ (/\ session_state'.doc_id = None
           /\ session_state'.doc_name = None
           /\ session_state'.doc_refs = <<>>
           /\ session_state'.messages = session_state.messages
           /\ session_state'.pending_question = session_state.pending_question)
          \/ ~ClearDoc
       /\ (/\ session_state'.messages = <<>>
           /\ DocumentFieldsUnchanged
           /\ session_state'.pending_question = session_state.pending_question)
          \/ ~ClearChat]_vars

\* C13 witness: the document was cleared after a grounded answer, and the
\* answer is still in the history
C13_Witness ==
    /\ session_state.doc_id = None
    /\ session_state.doc_refs = <<>>
    /\ \E i \in DOMAIN session_state.messages :
          ModeOf(session_state.messages[i]) = "doc"

\* the positions of hits that are the first with their id
FirstOccurrences(hits) ==
    {i \in 1..Len(hits) : \A j \in 1..(i - 1) : hits[j].id # hits[i].id}

\* the k-th smallest element of a set of numbers
Nth(S, k) == CHOOSE i \in S : Cardinality({j \in S : j <= i}) = k

\* the blocks of the hits at the positions in S, in the order of the positions
BlocksAt(hits, S) == [k \in 1..Cardinality(S) |-> Block(hits[Nth(S, k)])]

\* the passage portion of a context: what stands between the header and the
\* question marker
PassagePortion(context, question) ==
    SubSeq(context, Len(CTX_HEADER) + 1,
           Len(context) - Len(CTX_QUESTION) - Len(question))

\* C14: for every sequence of hits, the passages of the context are the
\* blocks of the hits that are the first with their id, each once, in the
\* order of these first occurrences (cut to max_chars); later hits with an
\* id seen before add nothing and move nothing.
C14_OneBlockPerId ==
    result.fn = "_make_context" =>
        result.ret.val =
            CTX_HEADER
            \o Prefix(Join(CTX_SEP, BlocksAt(result.hits,
                                             FirstOccurrences(result.hits))),
                      result.max_chars)
            \o CTX_QUESTION \o result.question

\* C14 witness: three hits, the third with the id of the first but another
\* text, and nothing cut
C14_Witness ==
    /\ result.fn = "_make_context"
    /\ Len(result.hits) = 3
    /\ result.hits[3].id = result.hits[1].id
    /\ result.hits[3].text # result.hits[1].text
    /\ result.hits[2].id # result.hits[1].id
    /\ result.max_chars = MAX_CHARS

\* C15: for every sequence of hits and every question, the context is the
\* header, then a passage portion of at most max_chars characters that is
\* the beginning of the joined blocks, then the question marker and the
\* whole question; this also with no hit.
C15_PassagesBoundedQuestionUncut ==
    result.fn = "_make_context" =>
        /\ Len(result.ret.val) >=
              Len(CTX_HEADER) + Len(CTX_QUESTION) + Len(result.question)
        /\ StartsWith(result.ret.val, CTX_HEADER)
        /\ Len(PassagePortion(result.ret.val, result.question))
              <= result.max_chars
        /\ IsPrefix(PassagePortion(result.ret.val, result.question),
                    Join(CTX_SEP, Blocks(result.hits, {})))
        /\ SubSeq(result.ret.val,
                  Len(result.ret.val) - Len(CTX_QUESTION)
                      - Len(result.question) + 1,
                  Len(result.ret.val))
              = CTX_QUESTION \o result.question

\* C15 witness: the joined blocks are longer than max_chars, and are cut
C15_Witness ==
    /\ result.fn = "_make_context"
    /\ result.max_chars > 0
    /\ Len(Join(CTX_SEP, Blocks(result.hits, {}))) > result.max_chars
    /\ Len(PassagePortion(result.ret.val, result.question)) = result.max_chars

\* the non-empty pat stands in text at position p
OccursAt(text, pat, p) ==
    /\ p + Len(pat) - 1 <= Len(text)
    /\ text[p] = pat[1]
    /\ SubSeq(text, p, p + Len(pat) - 1) = pat

\* the texts pats stand in text one after the other, from `from` on
\* (the bound variables hold each value, computed once)
RECURSIVE InOrder(_, _, _)
InOrder(text, pats, from) ==
    \/ pats = <<>>
    \/ \E t \in {text}, pat \in {Head(pats)}, rest \in {Tail(pats)} :
          \E p \in from..(Len(t) - Len(pat) + 1) :
              OccursAt(t, pat, p) /\ InOrder(t, rest, p + Len(pat))

\* what the two formats show of a message
MarkdownOf(m) == MdHead(m)
JsonOf(m) == JsonPair(KEY_CONTENT, JsonStr(m.content))

\* the exports list the messages in the order of the session
C16_ExportsInSessionOrder ==
    Messages # <<>> =>
        /\ md_text # None
        /\ json_blob # None
        /\ InOrder(md_text, [i \in 1..Len(Messages) |-> MarkdownOf(Messages[i])], 1)
        /\ InOrder(json_blob, [i \in 1..Len(Messages) |-> JsonOf(Messages[i])], 1)

\* C16: the export is pure and keeps the order.  A download run leaves
\* every field of the session as it was, and in every state the program
\* reaches the Markdown and the JSON list the messages in the order of the
\* session.
C16_ExportPureOrdered ==
    /\ [][session_state' = session_state \/ ~DownloadChat]_vars
    /\ []C16_ExportsInSessionOrder

\* C16 witness: two turns with different questions and answers are in the
\* history and exported, and the last run asked nothing
C16_Witness ==
    /\ Len(Messages) = 4
    /\ Messages[1].content # Messages[3].content
    /\ Messages[2].content # Messages[4].content
    /\ md_text # None
    /\ last.asked = None

\* a call of load_store, of retrieve or of the grounded backend failed
FailedBeforeTopical(calls) ==
    \E i \in DOMAIN calls :
        /\ ~calls[i].ok
        /\ calls[i].fn \in {"load_store", "retrieve"} \/ calls[i].role = "doc"

\* C17: in a turn, a topical backend call comes only after the grounded
\* backend call of the turn has returned a reply with the canonical phrase
\* (the grounded call is over, with its reply, before the topical call is
\* made); when load_store, retrieve or the grounded call fails, the turn
\* makes no topical call.
C17_TopicalOnlyAfterNotFound ==
    /\ \A j \in CallsIn(last.calls, "topical") :
          \E i \in CallsIn(last.calls, "doc") :
              /\ i < j
              /\ last.calls[i].ok
              /\ PhraseInAnyCase(last.calls[i].out)
    /\ FailedBeforeTopical(last.calls) => CallsIn(last.calls, "topical") = {}

\* C17 witness: the grounded backend call of the turn failed
C17_Witness ==
    /\ \E i \in CallsIn(last.calls, "doc") : ~last.calls[i].ok
    /\ CallsIn(last.calls, "topical") = {}

\* the step is an "Index document" run in which ingest_file or load_store
\* fails
IndexFails ==
    \E f \in FILES : \E in \in IndexInputs :
        /\ ~(in.ingest_ok /\ in.index_load_ok)
        /\ Commit(ScriptRun(session_state, Event("index", None, f, 0),
                            provider, Sys(in), in))

\* C18: an "Index document" run in which ingest_file or load_store fails
\* leaves doc_id, doc_name and doc_refs as they were.
C18_FailedIndexKeepsDocument ==
    [][DocumentFieldsUnchanged \/ ~IndexFails]_vars

\* C19: every message with a non-empty citations list is an Assistant
\* message with mode doc; User messages, the reply of the no-document
\* guard, error replies and off-doc replies carry no citation.
C19_CitationsOnlyOnGrounded ==
    \A i \in DOMAIN Messages :
        /\ CitationsOf(Messages[i]) # <<>> =>
              (Messages[i].role = "assistant" /\ ModeOf(Messages[i]) = "doc")
        /\ (\/ Messages[i].role = "user"
            \/ Messages[i].content = NO_DOC_REPLY
            \/ StartsWith(Messages[i].content, ERR_PREFIX)
            \/ ModeOf(Messages[i]) = "off-doc") =>
              CitationsOf(Messages[i]) = <<>>

\* C19 witness: the history holds a grounded answer with citations and an
\* off-doc answer for which hits were retrieved
C19_Witness ==
    /\ \E i \in DOMAIN Messages :
          ModeOf(Messages[i]) = "doc" /\ CitationsOf(Messages[i]) # <<>>
    /\ \E i \in DOMAIN Messages :
          ModeOf(Messages[i]) = "off-doc" /\ Messages[i].retrieved # <<>>

\* a script run from the present state, started by event ev
RunOf(ev, in) == ScriptRun(session_state, ev, provider, Sys(in), in)

\* the run r submitted question q, once (it appended one User message,
\* with q, and one reply), and left `pending` as the pending question
Submits(r, q, pending) ==
    /\ r.asked = q
    /\ Len(r.session_state.messages) = Len(session_state.messages) + 2
    /\ r.session_state.messages[Len(session_state.messages) + 1]
          = [role |-> "user", content |-> q]
    /\ r.session_state.messages[Len(session_state.messages) + 2].role
          = "assistant"
    /\ r.session_state.pending_question = pending

\* the run r submitted no question
SubmitsNothing(r) ==
    /\ r.asked = None
    /\ Len(r.session_state.messages) <= Len(session_state.messages)
    /\ r.session_state.pending_question = None

\* C20: in every state the program reaches, no question is pending between
\* runs; a run started by a sample-question button submits that question,
\* once, and leaves pending_question unset; a run with a typed question
\* submits the typed question and leaves pending_question as it was, also
\* when the dispatch of lines 196-202 finds a question pending; a run
\* started by any other widget submits nothing.  So a pending question is
\* submitted in the run that set it, and in no other.
C20_PendingSubmittedOnce ==
    /\ session_state.pending_question = None
    /\ Len(session_state.messages) + 2 <= MaxMessages =>
          \A in \in TurnInputs :
              /\ \A i \in 1..MaxSample :
                    Submits(RunOf(Event("sample", None, None, i), in),
                            SAMPLE_QS[i], None)
              /\ Submits(RunOf(Event("chat_input", TYPED_Q, None, 0), in),
                         TYPED_Q, session_state.pending_question)
              /\ \A i \in 1..MaxSample :
                    Submits(Dispatch([session_state EXCEPT
                                         !.pending_question = SAMPLE_QS[i]],
                                     TYPED_Q, provider, Sys(in), in),
                            TYPED_Q, SAMPLE_QS[i])
    /\ \A w \in {"clear_chat", "clear_doc", "provider", "download_md",
                  "download_json"} :
          \A in \in NoInputs : SubmitsNothing(RunOf(Event(w, None, None, 0), in))
    /\ \A f \in FILES : \A in \in IndexInputs :
          SubmitsNothing(RunOf(Event("index", None, f, 0), in))

\* C20 witness: a sample question was submitted after a typed one, and no
\* question is pending
C20_Witness ==
    /\ Len(Messages) = 4
    /\ Messages[1].content = TYPED_Q
    /\ Messages[3].content = SAMPLE_QS[1]
    /\ last.asked = SAMPLE_QS[1]
    /\ session_state.pending_question = None

=============================================================================
